---------------------------- MODULE Spec2Model ----------------------------
(***************************************************************************)
(* Model of src/app.py: a Streamlit inventory dashboard over a MySQL       *)
(* store.  One script run (a Streamlit rerun of the whole file) is one     *)
(* action.  The state is the store's two tables, the three memoization     *)
(* layers of st.cache_data (load_data_from_db and the two conn.query       *)
(* results, all with ttl=300 and all emptied by st.cache_data.clear()),    *)
(* the session's st.session_state, and what the last run rendered.         *)
(*                                                                         *)
(* Item codes and names are ASCII stand-ins for the Korean column values;  *)
(* a date is a day ordinal (pd.to_datetime keeps the order of dates); the  *)
(* free-text column of a transaction is not modelled, no computation       *)
(* reads it.                                                               *)
(***************************************************************************)
EXTENDS Integers, Sequences, FiniteSets, TLC

VARIABLES
    dbMaster,        \* store table of item rows: set of [code, name, ss]
    dbInv,           \* store table of transactions: sequence of [code, date, inbound, outbound]
    memo,            \* st.cache_data entry of load_data_from_db: <<>> or <<[master, inv]>>
    qMaster,         \* st.cache_data entry of conn.query(item_master_query): <<>> or <<rows>>
    qInv,            \* st.cache_data entry of conn.query(inventory_query): <<>> or <<txs>>
    master_data,     \* st.session_state.master_data: <<>> (key absent) or <<dict>>
    inventory_data,  \* st.session_state.inventory_data: <<>> or <<txs>>
    view,            \* what the last script run of the session put on the page
    last             \* the step just taken (history, read by the properties only)

vars == <<dbMaster, dbInv, memo, qMaster, qInv, master_data, inventory_data, view, last>>

----------------------------------------------------------------------------
(* Bounds of the model. *)

MaxSS == 2      \* safety-stock values typed into the number input: 0..MaxSS
MaxQty == 1     \* inbound / outbound quantity of a transaction: 0..MaxQty
MaxDate == 2    \* transaction dates: 1..MaxDate
MaxTx == 2      \* rows of the transaction table in the calculator specification

----------------------------------------------------------------------------
(* Values. *)

None == <<>>
Some(x) == <<x>>

Items == {"A", "B"}
ItemName == ("A" :> "Alpha") @@ ("B" :> "Beta")

\* options[0] of the main selectbox, line 104
Placeholder == "select"

\* The sidebar selectbox returns None when the dict has no key, line 69
NoSelection == "none"

Codes(rows) == {r.code : r \in rows}

Tx == [code : Items, date : 1..MaxDate, inbound : 0..MaxQty, outbound : 0..MaxQty]

\* The transaction table of the store in the session specification: item A
\* has three movements, two of them on the same date and the table not in
\* date order; item B has none.
SampleLedger ==
    << [code |-> "A", date |-> 2, inbound |-> 0, outbound |-> 1],
       [code |-> "A", date |-> 1, inbound |-> 2, outbound |-> 0],
       [code |-> "A", date |-> 2, inbound |-> 1, outbound |-> 0] >>

\* The transaction tables of the calculator specification
Ledgers == UNION {[1..n -> Tx] : n \in 0..MaxTx}

----------------------------------------------------------------------------
(* Store and cache operations. *)

\* Mutant of UpdateRows: the statement adds to the column (SET ss = ss + :stock).
UpdateRowsAdding(rows, code, stock) ==
    {IF r.code = code THEN [r EXCEPT !.ss = r.ss + stock] ELSE r : r \in rows}

\* Mutant of UpdateRows: the statement has lost its WHERE clause.
UpdateRowsNoWhere(rows, code, stock) ==
    {[r EXCEPT !.ss = stock] : r \in rows}

\* UPDATE ... SET ss = :stock WHERE code = :code; commit.  A code that
\* matches no row updates nothing and raises nothing.
UpdateRows(rows, code, stock) ==
    {IF r.code = code THEN [r EXCEPT !.ss = stock] ELSE r : r \in rows}

\* master_df.set_index(code).to_dict('index')
ToDict(rows) ==
    [c \in Codes(rows) |->
        LET r == CHOOSE r \in rows : r.code = c
        IN  [name |-> r.name, ss |-> r.ss]]

\* load_data_from_db() under @st.cache_data: a memoized result is returned
\* as is; otherwise the two queries run in order, each served from its own
\* conn.query(ttl=300) entry when it has one, each able to raise (failM,
\* failI: the store fails that query if it is sent).  A raise memoizes
\* nothing for the function that raised, and keeps what an earlier query
\* already memoized.
LoadData(failM, failI) ==
    IF memo # None
    THEN [ok |-> TRUE, data |-> memo[1], memo |-> memo, qMaster |-> qMaster, qInv |-> qInv]
    ELSE LET mOk == qMaster # None \/ ~failM
             qM  == IF qMaster # None THEN qMaster
                    ELSE IF failM THEN None ELSE Some(dbMaster)
             iOk == qInv # None \/ ~failI
             qI  == IF ~mOk \/ qInv # None THEN qInv
                    ELSE IF failI THEN None ELSE Some(dbInv)
         IN  IF mOk /\ iOk
             THEN [ok |-> TRUE, data |-> [master |-> qM[1], inv |-> qI[1]],
                   memo |-> Some([master |-> qM[1], inv |-> qI[1]]),
                   qMaster |-> qM, qInv |-> qI]
             ELSE [ok |-> FALSE, data |-> [master |-> {}, inv |-> <<>>],
                   memo |-> None, qMaster |-> qM, qInv |-> qI]

----------------------------------------------------------------------------
(* Stock calculator (main view). *)

\* inventory_df[inventory_df[code] == item_code_input]
Filter(inv, c) == SelectSeq(inv, LAMBDA t : t.code = c)

IsSortedByDate(txs) ==
    \A i \in 1..Len(txs) - 1 : txs[i].date <= txs[i + 1].date

\* sort_values(by=date, ascending=True): the default sort is not stable, so
\* rows of one date may come out in any order.
SortedByDate(txs) ==
    {s \in {[i \in 1..Len(txs) |-> txs[p[i]]] : p \in Permutations(1..Len(txs))} :
        IsSortedByDate(s)}

RECURSIVE ColumnSum(_, _)
\* Series.sum() of one column
ColumnSum(txs, col) ==
    IF txs = <<>> THEN 0
    ELSE txs[1][col] + ColumnSum(Tail(txs), col)

RECURSIVE FlooredNet(_, _)
FlooredNet(txs, acc) ==
    IF txs = <<>> THEN acc
    ELSE LET n == acc + txs[1].inbound - txs[1].outbound
         IN  FlooredNet(Tail(txs), IF n < 0 THEN 0 ELSE n)

\* Mutant of CurrentStock: a running net that is never let below zero.
CurrentStockFloored(txs) == FlooredNet(txs, 0)

CurrentStock(txs) ==
    IF txs = <<>> THEN 0
    ELSE ColumnSum(txs, "inbound") - ColumnSum(txs, "outbound")

AvailableStock(current_stock, safety_stock) == current_stock - safety_stock

\* Mutant of IsShortage: the boundary is left out.
IsShortageStrict(available_stock) == available_stock < 0

\* the condition of the warning banner
IsShortage(available_stock) == available_stock <= 0

\* Mutant of Cumsum: the outbound column is left out of the running balance.
CumsumInboundOnly(txs) ==
    LET c[i \in 0..Len(txs)] ==
            IF i = 0 THEN 0 ELSE c[i - 1] + txs[i].inbound
    IN  [i \in 1..Len(txs) |-> c[i]]

\* (inbound - outbound).cumsum()
Cumsum(txs) ==
    LET c[i \in 0..Len(txs)] ==
            IF i = 0 THEN 0 ELSE c[i - 1] + (txs[i].inbound - txs[i].outbound)
    IN  [i \in 1..Len(txs) |-> c[i]]

\* the detail table: the sorted rows with the running-balance column
DetailRows(txs) ==
    LET bal == Cumsum(txs)
    IN  [i \in 1..Len(txs) |->
            [date |-> txs[i].date, inbound |-> txs[i].inbound,
             outbound |-> txs[i].outbound, balance |-> bal[i]]]

\* The page of a run whose outer try raised: only the error is shown.
ErrorView ==
    [error |-> TRUE, save |-> "none", item |-> Placeholder, item_name |-> "",
     current_stock |-> 0, safety_stock |-> 0, available_stock |-> 0,
     shortage |-> FALSE, rows |-> <<>>]

\* The main view of a run: md the dict read at line 57, txs the item's
\* transactions after the sort, save the outcome shown in the sidebar.
MainView(md, item, txs, save) ==
    IF item = Placeholder
    THEN [ErrorView EXCEPT !.error = FALSE, !.save = save]
    ELSE LET current_stock == CurrentStock(txs)
             safety_stock == md[item].ss
             available_stock == AvailableStock(current_stock, safety_stock)
         IN  [error |-> FALSE, save |-> save, item |-> item,
              item_name |-> md[item].name,
              current_stock |-> current_stock, safety_stock |-> safety_stock,
              available_stock |-> available_stock,
              shortage |-> IsShortage(available_stock),
              rows |-> DetailRows(txs)]

----------------------------------------------------------------------------
(* Sidebar. *)

\* Mutant of NumberInput: the widget has no min_value.
NumberInputNoMin == -1..MaxSS

\* st.number_input(min_value=0, ...): the values the widget can return
NumberInput == 0..MaxSS

\* Mutant of SaveHandler: the session is updated before the write is tried.
SaveHandlerOptimistic(md, selected_item, new_safety_stock, failW) ==
    IF failW
    THEN [save |-> "error", db |-> dbMaster,
          md |-> [md EXCEPT ![selected_item].ss = new_safety_stock],
          memo |-> memo, qMaster |-> qMaster, qInv |-> qInv]
    ELSE [save |-> "success",
          db |-> UpdateRows(dbMaster, selected_item, new_safety_stock),
          md |-> [md EXCEPT ![selected_item].ss = new_safety_stock],
          memo |-> None, qMaster |-> None, qInv |-> None]

\* The body of `if st.button(...)`: the write, then the session update, then
\* the cache clear; an exception of the write skips the rest.  failW: the
\* store raises on the write (and changes nothing).
SaveHandler(md, selected_item, new_safety_stock, failW) ==
    IF failW
    THEN [save |-> "error", db |-> dbMaster, md |-> md,
          memo |-> memo, qMaster |-> qMaster, qInv |-> qInv]
    ELSE [save |-> "success",
          db |-> UpdateRows(dbMaster, selected_item, new_safety_stock),
          md |-> [md EXCEPT ![selected_item].ss = new_safety_stock],
          memo |-> None, qMaster |-> None, qInv |-> None]

----------------------------------------------------------------------------
(* Initial states. *)

BlankView == [ErrorView EXCEPT !.error = FALSE]

Step(kind, item, value, repeat) ==
    [kind |-> kind, item |-> item, value |-> value, repeat |-> repeat]

\* The process has just started: nothing memoized, no session state.  The
\* store holds one row per item with a non-negative safety stock.
InitWith(ledgers, stocks) ==
    /\ dbMaster \in {{[code |-> c, name |-> ItemName[c], ss |-> f[c]] : c \in Items} :
                        f \in [Items -> stocks]}
    /\ dbInv \in ledgers
    /\ memo = None /\ qMaster = None /\ qInv = None
    /\ master_data = None /\ inventory_data = None
    /\ view = BlankView
    /\ last = Step("init", NoSelection, 0, FALSE)

Init == InitWith({SampleLedger}, 0..MaxSS)

----------------------------------------------------------------------------
(* Script runs. *)

\* First run of a session, load succeeds: lines 51-58, then the page with
\* the widgets' defaults (no button was there to click, the main selectbox
\* shows its first option).
RunLoad ==
    /\ master_data = None
    /\ \E failM \in BOOLEAN, failI \in BOOLEAN :
        LET ld == LoadData(failM, failI)
        IN  /\ ld.ok
            /\ memo' = ld.memo /\ qMaster' = ld.qMaster /\ qInv' = ld.qInv
            /\ master_data' = Some(ToDict(ld.data.master))
            /\ inventory_data' = Some(ld.data.inv)
            /\ view' = MainView(ToDict(ld.data.master), Placeholder, <<>>, "none")
    /\ last' = Step("load", NoSelection, 0, FALSE)
    /\ UNCHANGED <<dbMaster, dbInv>>

\* First run of a session, load raises: the outer handler shows the error;
\* session_state gets no key.
RunLoadFailed ==
    /\ master_data = None
    /\ \E failM \in BOOLEAN, failI \in BOOLEAN :
        LET ld == LoadData(failM, failI)
        IN  /\ ~ld.ok
            /\ memo' = ld.memo /\ qMaster' = ld.qMaster /\ qInv' = ld.qInv
    /\ view' = ErrorView
    /\ last' = Step("load_failed", NoSelection, 0, FALSE)
    /\ UNCHANGED <<dbMaster, dbInv, master_data, inventory_data>>

\* A rerun of a loaded session without a click of the save button.
RunView ==
    /\ master_data # None
    /\ \E item \in {Placeholder} \cup DOMAIN master_data[1] :
       \E txs \in SortedByDate(Filter(inventory_data[1], item)) :
            view' = MainView(master_data[1], item, txs, "none")
    /\ last' = Step("view", NoSelection, 0, FALSE)
    /\ UNCHANGED <<dbMaster, dbInv, memo, qMaster, qInv, master_data, inventory_data>>

\* A rerun of a loaded session by a click of the save button, with the
\* sidebar's item and number; the main view is rendered in the same run.
RunSave ==
    /\ master_data # None
    /\ \E selected_item \in DOMAIN master_data[1], new_safety_stock \in NumberInput,
          failW \in BOOLEAN :
        LET r == SaveHandler(master_data[1], selected_item, new_safety_stock, failW)
        IN  /\ dbMaster' = r.db
            /\ master_data' = Some(r.md)
            /\ memo' = r.memo /\ qMaster' = r.qMaster /\ qInv' = r.qInv
            /\ \E item \in {Placeholder} \cup DOMAIN r.md :
               \E txs \in SortedByDate(Filter(inventory_data[1], item)) :
                    view' = MainView(r.md, item, txs, r.save)
            /\ last' = Step(IF r.save = "success" THEN "save_ok" ELSE "save_err",
                            selected_item, new_safety_stock,
                            /\ last.kind = "save_ok"
                            /\ last.item = selected_item
                            /\ last.value = new_safety_stock)
    /\ UNCHANGED <<dbInv, inventory_data>>

----------------------------------------------------------------------------
(* Environment. *)

\* A new browser session: an empty st.session_state and an empty page; the
\* process-wide caches stay.
NewSession ==
    /\ master_data # None \/ view # BlankView
    /\ master_data' = None /\ inventory_data' = None
    /\ view' = BlankView
    /\ last' = Step("new_session", NoSelection, 0, FALSE)
    /\ UNCHANGED <<dbMaster, dbInv, memo, qMaster, qInv>>

\* ttl=300 runs out for the oldest live cache entry.  An entry of the item
\* query is never younger than one of the transaction query, and neither is
\* younger than the entry of load_data_from_db.
Expire ==
    /\ \/ qMaster # None /\ qMaster' = None /\ UNCHANGED <<qInv, memo>>
       \/ qMaster = None /\ qInv # None /\ qInv' = None /\ UNCHANGED <<qMaster, memo>>
       \/ qMaster = None /\ qInv = None /\ memo # None /\ memo' = None
          /\ UNCHANGED <<qMaster, qInv>>
    /\ last' = Step("expire", NoSelection, 0, FALSE)
    /\ UNCHANGED <<dbMaster, dbInv, master_data, inventory_data, view>>

\* Another client of the store removes an item row.
ExternalDelete ==
    /\ \E r \in dbMaster : dbMaster' = dbMaster \ {r}
    /\ last' = Step("delete", NoSelection, 0, FALSE)
    /\ UNCHANGED <<dbInv, memo, qMaster, qInv, master_data, inventory_data, view>>

----------------------------------------------------------------------------
(* Specifications. *)

Next ==
    \/ RunLoad
    \/ RunLoadFailed
    \/ RunView
    \/ RunSave
    \/ NewSession
    \/ Expire
    \/ ExternalDelete

Spec == Init /\ [][Next]_vars

\* The store's set of items does not change.
NextStable ==
    \/ RunLoad
    \/ RunLoadFailed
    \/ RunView
    \/ RunSave
    \/ NewSession
    \/ Expire

SpecStable == Init /\ [][NextStable]_vars

\* The calculator on every transaction table within the bounds: a session
\* loads the table and views its items.
InitCalc == InitWith(Ledgers, {0})

NextCalc ==
    \/ RunLoad
    \/ RunView

SpecCalc == InitCalc /\ [][NextCalc]_vars

----------------------------------------------------------------------------
(* Properties. *)

SaveKinds == {"save_ok", "save_err"}

RECURSIVE TotalOver(_, _, _)
\* The sum of one column over a set of row numbers of a table.
TotalOver(inv, S, col) ==
    IF S = {} THEN 0
    ELSE LET i == CHOOSE i \in S : TRUE
         IN  inv[i][col] + TotalOver(inv, S \ {i}, col)

RowsOf(inv, c) == {i \in 1..Len(inv) : inv[i].code = c}

Permuted(txs, p) == [i \in 1..Len(txs) |-> txs[p[i]]]

Shown == master_data # None /\ view.item # Placeholder

\* C1: a save whose write raises leaves the session's Item Master exactly
\* as it was, and clears none of the memoized results.
C1_FailedSaveChangesNothing ==
    [][last'.kind = "save_err" =>
        /\ master_data' = master_data
        /\ memo' = memo /\ qMaster' = qMaster /\ qInv' = qInv]_vars

\* A failed save of a value other than the one in memory, with the bulk
\* load still memoized.
C1_Witness ==
    /\ last.kind = "save_err"
    /\ master_data[1][last.item].ss # last.value
    /\ memo # None

\* C2: a save for an item code that has no row in the store ends in
\* failure and leaves the session's Item Master unchanged.
C2_UnknownCodeSaveFails ==
    [][(last'.kind \in SaveKinds /\ last'.item \notin Codes(dbMaster)) =>
        /\ last'.kind = "save_err"
        /\ master_data' = master_data]_vars

\* C3: right after a save reported as successful, of value v for item c, the
\* session reads v for c, the snapshot of the same run shows v for c, no
\* memoized result is left, and a full load returns v for c.
C3_SuccessfulSaveIsReadBack ==
    last.kind = "save_ok" =>
        /\ master_data[1][last.item].ss = last.value
        /\ view.save = "success"
        /\ view.item = last.item => view.safety_stock = last.value
        /\ memo = None /\ qMaster = None /\ qInv = None
        /\ LET ld == LoadData(FALSE, FALSE)
           IN  /\ ld.ok
               /\ \E r \in ld.data.master : r.code = last.item /\ r.ss = last.value

\* C3, for later reads: in a session the safety stock read for an item
\* changes only by a successful save of that item, to the saved value.
C3_ReadsChangeOnlyBySave ==
    [][(master_data # None /\ master_data' # None) =>
        \A c \in DOMAIN master_data[1] :
            /\ c \in DOMAIN master_data'[1]
            /\ master_data'[1][c].ss # master_data[1][c].ss =>
                /\ last'.kind = "save_ok" /\ last'.item = c
                /\ master_data'[1][c].ss = last'.value]_vars

\* C4: the current stock shown for an item is the sum of its inbound
\* quantities minus the sum of its outbound quantities, is what the
\* calculator gives for every permutation of the item's transactions, and is
\* 0 when the item has none.
C4_CurrentStockIsNetOfMovements ==
    Shown =>
        LET inv == inventory_data[1]
            S == RowsOf(inv, view.item)
            txs == Filter(inv, view.item)
        IN  /\ view.current_stock =
                   TotalOver(inv, S, "inbound") - TotalOver(inv, S, "outbound")
            /\ \A p \in Permutations(1..Len(txs)) :
                   CurrentStock(Permuted(txs, p)) = view.current_stock
            /\ S = {} => view.current_stock = 0

\* An item shown with two different transactions, an outbound one first.
C4_Witness ==
    /\ Shown
    /\ LET txs == Filter(inventory_data[1], view.item)
       IN  /\ Len(txs) = 2
           /\ txs[1].outbound > 0 /\ txs[2].inbound > 0
           /\ txs[1] # txs[2]
    /\ view.current_stock # 0

\* C5: for an item with transactions, the detail table has one row per
\* transaction, in ascending date order, each balance is the previous one (0
\* before the first) plus inbound minus outbound, and the last balance is
\* the current stock shown.
C5_RunningBalance ==
    (Shown /\ RowsOf(inventory_data[1], view.item) # {}) =>
        LET txs == Filter(inventory_data[1], view.item)
            rows == view.rows
            n == Len(rows)
        IN  /\ n = Len(txs)
            /\ \E p \in Permutations(1..n) :
                   \A i \in 1..n :
                       /\ rows[i].date = txs[p[i]].date
                       /\ rows[i].inbound = txs[p[i]].inbound
                       /\ rows[i].outbound = txs[p[i]].outbound
            /\ \A i \in 1..n - 1 : rows[i].date <= rows[i + 1].date
            /\ \A i \in 1..n :
                   rows[i].balance =
                       (IF i = 1 THEN 0 ELSE rows[i - 1].balance)
                           + rows[i].inbound - rows[i].outbound
            /\ rows[n].balance = view.current_stock

\* A table that was not in date order, shown sorted, with an outbound
\* movement in it.
C5_Witness ==
    /\ Shown
    /\ LET txs == Filter(inventory_data[1], view.item)
       IN  /\ Len(txs) = 2
           /\ txs[1].date > txs[2].date
           /\ txs[1].outbound > 0
    /\ Len(view.rows) = 2
    /\ view.rows[1].date < view.rows[2].date
    /\ view.rows[2].balance # view.rows[1].balance

\* C6: the available stock shown is the current stock minus the item's
\* safety stock, the shortage warning is shown exactly when the available
\* stock is <= 0, and an item with no transactions and safety stock 0 is
\* shown as a shortage.
C6_AvailableStockAndShortage ==
    Shown =>
        /\ view.safety_stock = master_data[1][view.item].ss
        /\ view.available_stock = view.current_stock - view.safety_stock
        /\ view.shortage <=> view.available_stock <= 0
        /\ (RowsOf(inventory_data[1], view.item) = {} /\ view.safety_stock = 0)
               => view.shortage

\* An item with no transactions and safety stock 0, shown with the warning.
C6_Witness ==
    /\ Shown
    /\ RowsOf(inventory_data[1], view.item) = {}
    /\ view.safety_stock = 0
    /\ view.available_stock = 0
    /\ view.shortage

\* C7: a save that repeats the successful save just before it (same item,
\* same value) changes neither the session's Item Master nor the store's.
C7_RepeatedSaveChangesNothing ==
    [][(last'.kind \in SaveKinds /\ last'.repeat) =>
        /\ master_data' = master_data
        /\ dbMaster' = dbMaster]_vars

\* The second of two successful saves of one positive value for one item.
C7_Witness ==
    /\ last.kind = "save_ok"
    /\ last.repeat
    /\ last.value > 0

\* C8: a bulk load that fails stores nothing in the session, memoizes
\* nothing, shows the error, and leaves the session to load again on its
\* next run.
C8_FailedLoadCachesNothing ==
    [][last'.kind = "load_failed" =>
        /\ master_data' = None /\ inventory_data' = None
        /\ memo' = memo /\ qMaster' = qMaster /\ qInv' = qInv
        /\ view'.error]_vars

\* C9: every safety stock of the session's Item Master is a non-negative
\* integer.
C9_SafetyStockNonNegative ==
    master_data # None =>
        \A c \in DOMAIN master_data[1] : master_data[1][c].ss \in Nat

\* The session's Item Master after a successful save of the largest value
\* of the number input.
C9_Witness ==
    /\ last.kind = "save_ok"
    /\ last.value = MaxSS
    /\ master_data[1][last.item].ss = MaxSS

\* C10: with the store's set of items fixed, a save leaves every safety
\* stock of the session equal to the store's, and a save for item c changes
\* no other item's safety stock, no name and no transaction, in the session
\* or in the store.
C10_SaveKeepsSessionAndStoreAligned ==
    [][last'.kind \in SaveKinds =>
        LET c == last'.item
            md == master_data[1]
            md2 == master_data'[1]
        IN  /\ \A d \in DOMAIN md2 :
                   \E r \in dbMaster' : r.code = d /\ r.ss = md2[d].ss
            /\ DOMAIN md2 = DOMAIN md
            /\ \A d \in DOMAIN md :
                   /\ md2[d].name = md[d].name
                   /\ d # c => md2[d].ss = md[d].ss
            /\ Codes(dbMaster') = Codes(dbMaster)
            /\ \A r \in dbMaster :
                   \E r2 \in dbMaster' :
                       /\ r2.code = r.code /\ r2.name = r.name
                       /\ r.code # c => r2.ss = r.ss
            /\ inventory_data' = inventory_data
            /\ dbInv' = dbInv]_vars

\* A successful save that leaves another item with a different safety stock.
C10_Witness ==
    /\ last.kind = "save_ok"
    /\ \E d \in DOMAIN master_data[1] :
           d # last.item /\ master_data[1][d].ss # last.value

=============================================================================
